---- MODULE Spec2Model ----
(***************************************************************************)
(* Model of the three programs of the repository:                          *)
(*   src/main.c       disk scheduling simulator (fcfs, scan, main)         *)
(*   src/prefix.cpp   prefix expression evaluator                          *)
(*   src/postfix.cpp  infix-to-postfix converter                           *)
(* Each program is a separate specification over the same variables        *)
(* (SpecDisk, SpecPrefix, SpecPostfix).  Characters are their ASCII codes, *)
(* so the range tests of the source are translated literally.  A C array   *)
(* index k is index k + 1 of the sequence that models the array.           *)
(***************************************************************************)
EXTENDS Integers, Sequences, FiniteSets, TLC

VARIABLES
    pc,                   \* position in the running program
    n,                    \* main.c: request count read from input
    requests,             \* main.c: main's requests[] (the elements written so far)
    head,                 \* main.c: initial head position
    i,                    \* loop index of the running loop
    j,                    \* main.c: inner loop index of the bubble sort
    total_head_movement,  \* main.c: local of fcfs / scan
    current_position,     \* main.c: local of fcfs / scan
    sorted_requests,      \* main.c: scan's private copy
    stdout,               \* main.c: lines printed
    exit_code,            \* process exit status, -1 while running
    fault,                \* TRUE once the process was killed by a memory/arithmetic fault
    oob,                  \* TRUE once an array was accessed outside 0..n-1
    exp,                  \* prefix.cpp: input string
    infix,                \* postfix.cpp: input string
    postfix,              \* postfix.cpp: output string
    s,                    \* prefix.cpp / postfix.cpp: the working stack, top last
    underflow,            \* TRUE once top()/pop() was called on an empty stack
    result                \* prefix.cpp: the printed result, as a one-element sequence

vars == <<pc, n, requests, head, i, j, total_head_movement, current_position,
          sorted_requests, stdout, exit_code, fault, oob,
          exp, infix, postfix, s, underflow, result>>

exprVars == <<exp, infix, postfix, s, underflow, result>>

(***************************************************************************)
(* Bounds of the model                                                     *)
(***************************************************************************)
MaxN == 3           \* longest request sequence explored
MaxCyl == 3         \* cylinder positions are 0..MaxCyl
MaxExpLen == 5      \* longest prefix expression explored
MaxInfixLen == 5    \* longest infix expression explored

MAX_REQUESTS == 100

Cylinders == 0 .. MaxCyl
\* request counts typed by the user: negative, zero, accepted, rejected
NInputs == (-1 .. MaxN) \cup {MAX_REQUESTS + 1}
\* what a read of an int outside the initialised part of an array may yield
GarbageInts == {-1} \cup Cylinders

AbsNoSign(x) == x
Abs(x) == IF x < 0 THEN -x ELSE x

Move(fn, a, b) == [fn |-> fn, kind |-> "move", from |-> a, to |-> b]
Total(fn, t) == [fn |-> fn, kind |-> "total", from |-> t, to |-> t]
Header(fn) == [fn |-> fn, kind |-> "header", from |-> 0, to |-> 0]
ErrorLine == [fn |-> "main", kind |-> "error", from |-> 0, to |-> 0]

\* the idle values of the variables of the programs that are not running
DiskIdle ==
    /\ n = 0 /\ requests = <<>> /\ head = 0 /\ j = 0
    /\ total_head_movement = 0 /\ current_position = 0
    /\ sorted_requests = <<>> /\ stdout = <<>> /\ oob = FALSE
ExprIdle ==
    /\ exp = <<>> /\ infix = <<>> /\ postfix = <<>> /\ s = <<>>
    /\ underflow = FALSE /\ result = <<>>

(***************************************************************************)
(* src/main.c : main                                                       *)
(***************************************************************************)
InitDisk ==
    /\ pc = "main_read_n"
    /\ i = 0 /\ exit_code = -1 /\ fault = FALSE
    /\ DiskIdle /\ ExprIdle

MainReadN ==
    /\ pc = "main_read_n"
    /\ \E v \in NInputs : n' = v
    /\ pc' = "main_check"
    /\ UNCHANGED <<requests, head, i, j, total_head_movement, current_position,
                   sorted_requests, stdout, exit_code, fault, oob>>
    /\ UNCHANGED exprVars

MainReject ==
    /\ pc = "main_check"
    /\ n > MAX_REQUESTS
    /\ stdout' = Append(stdout, ErrorLine)
    /\ exit_code' = 1
    /\ pc' = "exited"
    /\ UNCHANGED <<n, requests, head, i, j, total_head_movement, current_position,
                   sorted_requests, fault, oob>>
    /\ UNCHANGED exprVars

MainAccept ==
    /\ pc = "main_check"
    /\ ~(n > MAX_REQUESTS)
    /\ i' = 0
    /\ pc' = "main_read_requests"
    /\ UNCHANGED <<n, requests, head, j, total_head_movement, current_position,
                   sorted_requests, stdout, exit_code, fault, oob>>
    /\ UNCHANGED exprVars

MainReadRequest ==
    /\ pc = "main_read_requests"
    /\ i < n
    /\ \E v \in Cylinders : requests' = Append(requests, v)
    /\ oob' = (oob \/ ~(i \in 0 .. n - 1 /\ i < MAX_REQUESTS))
    /\ i' = i + 1
    /\ UNCHANGED <<pc, n, head, j, total_head_movement, current_position,
                   sorted_requests, stdout, exit_code, fault>>
    /\ UNCHANGED exprVars

MainReadHead ==
    /\ pc = "main_read_requests"
    /\ ~(i < n)
    /\ \E v \in Cylinders : head' = v
    /\ pc' = "call_fcfs"
    /\ UNCHANGED <<n, requests, i, j, total_head_movement, current_position,
                   sorted_requests, stdout, exit_code, fault, oob>>
    /\ UNCHANGED exprVars

(***************************************************************************)
(* src/main.c : fcfs                                                       *)
(***************************************************************************)
FcfsEnter ==
    /\ pc = "call_fcfs"
    /\ total_head_movement' = 0
    /\ current_position' = head
    /\ stdout' = Append(stdout, Header("fcfs"))
    /\ i' = 0
    /\ pc' = "fcfs_loop"
    /\ UNCHANGED <<n, requests, head, j, sorted_requests, exit_code, fault, oob>>
    /\ UNCHANGED exprVars

FcfsStep ==
    /\ pc = "fcfs_loop"
    /\ i < n
    /\ stdout' = Append(stdout, Move("fcfs", current_position, requests[i + 1]))
    /\ total_head_movement' =
           total_head_movement + Abs(current_position - requests[i + 1])
    /\ current_position' = requests[i + 1]
    /\ oob' = (oob \/ ~(i \in 0 .. n - 1 /\ i < MAX_REQUESTS))
    /\ i' = i + 1
    /\ UNCHANGED <<pc, n, requests, head, j, sorted_requests, exit_code, fault>>
    /\ UNCHANGED exprVars

FcfsReturn ==
    /\ pc = "fcfs_loop"
    /\ ~(i < n)
    /\ stdout' = Append(stdout, Total("fcfs", total_head_movement))
    /\ pc' = "call_scan"
    /\ UNCHANGED <<n, requests, head, i, j, total_head_movement, current_position,
                   sorted_requests, exit_code, fault, oob>>
    /\ UNCHANGED exprVars

(***************************************************************************)
(* src/main.c : scan                                                       *)
(***************************************************************************)
ScanEnter ==
    /\ pc = "call_scan"
    /\ total_head_movement' = 0
    /\ current_position' = head
    /\ sorted_requests' = <<>>
    /\ i' = 0
    /\ pc' = "scan_copy"
    /\ UNCHANGED <<n, requests, head, j, stdout, exit_code, fault, oob>>
    /\ UNCHANGED exprVars

ScanCopyStep ==
    /\ pc = "scan_copy"
    /\ i < n
    /\ sorted_requests' = Append(sorted_requests, requests[i + 1])
    /\ oob' = (oob \/ ~(i \in 0 .. n - 1 /\ i < MAX_REQUESTS))
    /\ i' = i + 1
    /\ UNCHANGED <<pc, n, requests, head, j, total_head_movement, current_position,
                   stdout, exit_code, fault>>
    /\ UNCHANGED exprVars

ScanCopyDone ==
    /\ pc = "scan_copy"
    /\ ~(i < n)
    /\ i' = 0
    /\ pc' = "scan_sort_outer"
    /\ UNCHANGED <<n, requests, head, j, total_head_movement, current_position,
                   sorted_requests, stdout, exit_code, fault, oob>>
    /\ UNCHANGED exprVars

\* the bubble sort's test, line 31
OutOfOrder(a, b) == a > b

\* the exchange of elements k and k + 1 (C indices), lines 32-34
Swap(arr, k) ==
    [arr EXCEPT ![k + 1] = arr[k + 2], ![k + 2] = arr[k + 1]]

ScanSortOuter ==
    /\ pc = "scan_sort_outer"
    /\ i < n - 1
    /\ j' = 0
    /\ pc' = "scan_sort_inner"
    /\ UNCHANGED <<n, requests, head, i, total_head_movement, current_position,
                   sorted_requests, stdout, exit_code, fault, oob>>
    /\ UNCHANGED exprVars

ScanSortCompareSwapInPlace ==
    /\ pc = "scan_sort_inner"
    /\ j < n - i - 1
    /\ sorted_requests' =
           IF OutOfOrder(sorted_requests[j + 1], sorted_requests[j + 2])
           THEN Swap(sorted_requests, j)
           ELSE sorted_requests
    /\ requests' = sorted_requests'
    /\ oob' = (oob \/ ~(j \in 0 .. n - 1 /\ j + 1 \in 0 .. n - 1))
    /\ j' = j + 1
    /\ UNCHANGED <<pc, n, head, i, total_head_movement, current_position,
                   stdout, exit_code, fault>>
    /\ UNCHANGED exprVars

ScanSortCompareSwap ==
    /\ pc = "scan_sort_inner"
    /\ j < n - i - 1
    /\ sorted_requests' =
           IF OutOfOrder(sorted_requests[j + 1], sorted_requests[j + 2])
           THEN Swap(sorted_requests, j)
           ELSE sorted_requests
    /\ oob' = (oob \/ ~(j \in 0 .. n - 1 /\ j + 1 \in 0 .. n - 1))
    /\ j' = j + 1
    /\ UNCHANGED <<pc, n, requests, head, i, total_head_movement, current_position,
                   stdout, exit_code, fault>>
    /\ UNCHANGED exprVars

ScanSortInnerDone ==
    /\ pc = "scan_sort_inner"
    /\ ~(j < n - i - 1)
    /\ i' = i + 1
    /\ pc' = "scan_sort_outer"
    /\ UNCHANGED <<n, requests, head, j, total_head_movement, current_position,
                   sorted_requests, stdout, exit_code, fault, oob>>
    /\ UNCHANGED exprVars

ScanSortDone ==
    /\ pc = "scan_sort_outer"
    /\ ~(i < n - 1)
    /\ stdout' = Append(stdout, Header("scan"))
    /\ i' = 0
    /\ pc' = "scan_right"
    /\ UNCHANGED <<n, requests, head, j, total_head_movement, current_position,
                   sorted_requests, exit_code, fault, oob>>
    /\ UNCHANGED exprVars

\* the rightward sweep's test, line 43
ServedRightwardStrict(r, cur) == r > cur
ServedRightward(r, cur) == r >= cur

\* the leftward sweep's test, line 57
ServedLeftwardStrict(r, cur) == r < cur
ServedLeftward(r, cur) == r <= cur

ScanRightStep ==
    /\ pc = "scan_right"
    /\ i < n
    /\ IF ServedRightward(sorted_requests[i + 1], current_position)
       THEN /\ stdout' = Append(stdout,
                           Move("scan", current_position, sorted_requests[i + 1]))
            /\ total_head_movement' =
                   total_head_movement + Abs(current_position - sorted_requests[i + 1])
            /\ current_position' = sorted_requests[i + 1]
       ELSE UNCHANGED <<stdout, total_head_movement, current_position>>
    /\ oob' = (oob \/ ~(i \in 0 .. n - 1 /\ i < MAX_REQUESTS))
    /\ i' = i + 1
    /\ UNCHANGED <<pc, n, requests, head, j, sorted_requests, exit_code, fault>>
    /\ UNCHANGED exprVars

ScanRightDone ==
    /\ pc = "scan_right"
    /\ ~(i < n)
    /\ pc' = "scan_reverse"
    /\ UNCHANGED <<n, requests, head, i, j, total_head_movement, current_position,
                   sorted_requests, stdout, exit_code, fault, oob>>
    /\ UNCHANGED exprVars

\* lines 51-53 with the value v read from sorted_requests[n - 1]
ReverseTo(v) ==
    /\ stdout' = Append(stdout, Move("scan", current_position, v))
    /\ total_head_movement' = total_head_movement + Abs(current_position - v)
    /\ current_position' = v
    /\ i' = n - 1
    /\ pc' = "scan_left"

ScanReverseNotCounted ==
    /\ pc = "scan_reverse"
    /\ n - 1 \in 0 .. n - 1
    /\ stdout' = Append(stdout, Move("scan", current_position, sorted_requests[n]))
    /\ current_position' = sorted_requests[n]
    /\ i' = n - 1
    /\ pc' = "scan_left"
    /\ UNCHANGED <<n, requests, head, j, sorted_requests, exit_code, fault, oob,
                   total_head_movement>>
    /\ UNCHANGED exprVars

\* the reversal step when sorted_requests[n - 1] is an element of the array
ScanReverse ==
    /\ pc = "scan_reverse"
    /\ n - 1 \in 0 .. n - 1
    /\ ReverseTo(sorted_requests[n])
    /\ UNCHANGED <<n, requests, head, j, sorted_requests, exit_code, fault, oob>>
    /\ UNCHANGED exprVars

\* the reversal step when n <= 0: sorted_requests[n - 1] lies before the array;
\* the read yields whatever the stack holds there ...
ScanReverseGarbage ==
    /\ pc = "scan_reverse"
    /\ ~(n - 1 \in 0 .. n - 1)
    /\ \E v \in GarbageInts : ReverseTo(v)
    /\ oob' = TRUE
    /\ UNCHANGED <<n, requests, head, j, sorted_requests, exit_code, fault>>
    /\ UNCHANGED exprVars

\* ... or, when the address is not mapped, the process is killed
ScanReverseFault ==
    /\ pc = "scan_reverse"
    /\ ~(n - 1 \in 0 .. n - 1)
    /\ oob' = TRUE
    /\ fault' = TRUE
    /\ pc' = "killed"
    /\ UNCHANGED <<n, requests, head, i, j, total_head_movement, current_position,
                   sorted_requests, stdout, exit_code>>
    /\ UNCHANGED exprVars

ScanLeftStep ==
    /\ pc = "scan_left"
    /\ i >= 0
    /\ IF ServedLeftward(sorted_requests[i + 1], current_position)
       THEN /\ stdout' = Append(stdout,
                           Move("scan", current_position, sorted_requests[i + 1]))
            /\ total_head_movement' =
                   total_head_movement + Abs(current_position - sorted_requests[i + 1])
            /\ current_position' = sorted_requests[i + 1]
       ELSE UNCHANGED <<stdout, total_head_movement, current_position>>
    /\ oob' = (oob \/ ~(i \in 0 .. n - 1 /\ i < MAX_REQUESTS))
    /\ i' = i - 1
    /\ UNCHANGED <<pc, n, requests, head, j, sorted_requests, exit_code, fault>>
    /\ UNCHANGED exprVars

ScanReturn ==
    /\ pc = "scan_left"
    /\ ~(i >= 0)
    /\ stdout' = Append(stdout, Total("scan", total_head_movement))
    /\ pc' = "main_return"
    /\ UNCHANGED <<n, requests, head, i, j, total_head_movement, current_position,
                   sorted_requests, exit_code, fault, oob>>
    /\ UNCHANGED exprVars

MainReturn ==
    /\ pc = "main_return"
    /\ exit_code' = 0
    /\ pc' = "exited"
    /\ UNCHANGED <<n, requests, head, i, j, total_head_movement, current_position,
                   sorted_requests, stdout, fault, oob>>
    /\ UNCHANGED exprVars

NextDisk ==
    \/ MainReadN \/ MainReject \/ MainAccept \/ MainReadRequest \/ MainReadHead
    \/ FcfsEnter \/ FcfsStep \/ FcfsReturn
    \/ ScanEnter \/ ScanCopyStep \/ ScanCopyDone
    \/ ScanSortOuter \/ ScanSortCompareSwap \/ ScanSortInnerDone \/ ScanSortDone
    \/ ScanRightStep \/ ScanRightDone
    \/ ScanReverse \/ ScanReverseGarbage \/ ScanReverseFault
    \/ ScanLeftStep \/ ScanReturn
    \/ MainReturn

SpecDisk == InitDisk /\ [][NextDisk]_vars

(***************************************************************************)
(* Reference definitions for the disk scheduler's properties               *)
(***************************************************************************)
LinesOf(fn, kind) == SelectSeq(stdout, LAMBDA l : l.fn = fn /\ l.kind = kind)
FcfsMoves == LinesOf("fcfs", "move")
ScanMoves == LinesOf("scan", "move")
FcfsFinished == Len(LinesOf("fcfs", "total")) = 1
ScanFinished == Len(LinesOf("scan", "total")) = 1
FcfsReported == LinesOf("fcfs", "total")[1].from
ScanReported == LinesOf("scan", "total")[1].from

Dests(moves) == [k \in 1 .. Len(moves) |-> moves[k].to]
Range(seq) == {seq[k] : k \in 1 .. Len(seq)}
MaxOf(seq) == CHOOSE x \in Range(seq) : \A y \in Range(seq) : y <= x
MinOf(seq) == CHOOSE x \in Range(seq) : \A y \in Range(seq) : x <= y

RECURSIVE SumSeq(_)
SumSeq(seq) == IF seq = <<>> THEN 0 ELSE Head(seq) + SumSeq(Tail(seq))

\* the moves form a path that starts at position start
IsPathFrom(moves, start) ==
    \A k \in 1 .. Len(moves) :
        moves[k].from = (IF k = 1 THEN start ELSE moves[k - 1].to)
Cost(moves) == SumSeq([k \in 1 .. Len(moves) |->
                          IF moves[k].from >= moves[k].to
                          THEN moves[k].from - moves[k].to
                          ELSE moves[k].to - moves[k].from])

\* the elements of seq in ascending order, by counting from value v upwards
RECURSIVE AscendingFrom(_, _)
AscendingFrom(seq, v) ==
    IF v > MaxCyl THEN <<>>
    ELSE SelectSeq(seq, LAMBDA x : x = v) \o AscendingFrom(seq, v + 1)
Ascending(seq) == AscendingFrom(seq, 0)
Reverse(seq) == [k \in 1 .. Len(seq) |-> seq[Len(seq) + 1 - k]]
Descending(seq) == Reverse(Ascending(seq))

AtOrAbove(seq, h) == SelectSeq(seq, LAMBDA x : x >= h)
AtOrBelow(seq, h) == SelectSeq(seq, LAMBDA x : x <= h)

\* C1: fcfs services the requests in input order, the i-th move going from the
\* previous position (head for the first) to r[i], and reports
\* |head - r[0]| + sum of |r[i-1] - r[i]|; nothing is reordered.
C1_FcfsInputOrder ==
    (FcfsFinished /\ n >= 0) =>
        /\ Len(FcfsMoves) = n
        /\ Dests(FcfsMoves) = requests
        /\ IsPathFrom(FcfsMoves, head)
        /\ FcfsReported = Cost([k \in 1 .. n |->
               [from |-> IF k = 1 THEN head ELSE requests[k - 1], to |-> requests[k]]])

C1_Witness ==
    /\ FcfsFinished /\ n = 3
    /\ requests[1] > requests[2] /\ requests[2] < requests[3]
    /\ FcfsReported > 0

\* C2 as stated: for n >= 1 scan's move destinations are the requests >= head
\* ascending, then the maximum request (the reversal, always), then every
\* request <= the position after the reversal descending; the position never
\* decreases up to and including the reversal and never increases after it;
\* the total is the sum of the absolute differences of these moves.
C2_Original ==
    (ScanFinished /\ n >= 1) =>
        LET right == Ascending(AtOrAbove(requests, head))
            top   == MaxOf(requests)
            left  == Descending(AtOrBelow(requests, top))
            r     == Len(right) + 1
        IN  /\ Dests(ScanMoves) = right \o <<top>> \o left
            /\ IsPathFrom(ScanMoves, head)
            /\ \A k \in 1 .. Len(ScanMoves) :
                   IF k <= r THEN ScanMoves[k].from <= ScanMoves[k].to
                             ELSE ScanMoves[k].from >= ScanMoves[k].to
            /\ ScanReported = Cost(ScanMoves)

\* C2 amended: the destinations and the total are as stated; the position
\* never decreases during the rightward sweep and never increases after the
\* reversal; the reversal step itself does not decrease the position when some
\* request is >= head, and moves the head down from head to the maximum
\* request when every request is below head.
C2_ScanOrder ==
    (ScanFinished /\ n >= 1) =>
        LET right == Ascending(AtOrAbove(requests, head))
            top   == MaxOf(requests)
            left  == Descending(AtOrBelow(requests, top))
            r     == Len(right) + 1
        IN  /\ Dests(ScanMoves) = right \o <<top>> \o left
            /\ IsPathFrom(ScanMoves, head)
            /\ \A k \in 1 .. Len(ScanMoves) :
                   IF k < r THEN ScanMoves[k].from <= ScanMoves[k].to
                   ELSE IF k > r THEN ScanMoves[k].from >= ScanMoves[k].to
                   ELSE IF right # <<>> THEN ScanMoves[k].from <= ScanMoves[k].to
                   ELSE ScanMoves[k] = Move("scan", head, top) /\ head > top
            /\ ScanReported = Cost(ScanMoves)

C2_Witness ==
    /\ ScanFinished /\ n = 3
    /\ \E k \in 1 .. 3 : requests[k] < head
    /\ \E k \in 1 .. 3 : requests[k] > head
    /\ requests[1] > requests[2]

\* C3: if n exceeds 100 main reports an error and exits with code 1 without
\* reading a request or running fcfs or scan; otherwise it reads the n
\* requests and the head, runs fcfs and then scan, and exits with code 0.
C3_MainContract ==
    /\ (n > MAX_REQUESTS /\ pc # "main_check") =>
           /\ pc = "exited" /\ exit_code = 1
           /\ stdout = <<ErrorLine>>
           /\ requests = <<>>
    /\ (~(n > MAX_REQUESTS) /\ pc \in {"exited", "killed"}) =>
           /\ pc = "exited" /\ exit_code = 0
           /\ Len(requests) = (IF n > 0 THEN n ELSE 0)
           /\ FcfsFinished /\ ScanFinished
           /\ \E a, b \in 1 .. Len(stdout) :
                  /\ stdout[a] = Total("fcfs", FcfsReported)
                  /\ stdout[b] = Header("scan")
                  /\ a < b

\* C4: once read, the requests, n and head are not changed by fcfs or scan
\* (scan sorts a private copy), so scan works on the sequence and head that
\* fcfs was given.
C4_InputsImmutable ==
    /\ [][pc \notin {"main_read_n", "main_check", "main_read_requests"}
            => UNCHANGED <<requests, n, head>>]_vars
    /\ [](pc \in {"scan_copy", "scan_sort_outer", "scan_sort_inner", "scan_right",
                  "scan_reverse", "scan_left", "main_return"}
            => /\ Dests(FcfsMoves) = requests
               /\ IsPathFrom(FcfsMoves, head))

C4_Witness ==
    /\ pc = "scan_right" /\ n = 3
    /\ sorted_requests # requests
    /\ sorted_requests = Ascending(requests)

\* C7 as stated: when head is above every request (n >= 1) the total reported
\* by scan is strictly greater than head - min(requests).
C7_Original ==
    (ScanFinished /\ n >= 1 /\ \A k \in 1 .. n : head > requests[k]) =>
        ScanReported > head - MinOf(requests)

\* C7 amended: when head is above every request (n >= 1) the reversal step
\* moves the head down to the maximum request and is counted once, and the
\* total reported by scan equals head - min(requests).
C7_NoDoubleCount ==
    (ScanFinished /\ n >= 1 /\ \A k \in 1 .. n : head > requests[k]) =>
        /\ ScanMoves[1] = Move("scan", head, MaxOf(requests))
        /\ ScanReported = head - MinOf(requests)

C7_Witness ==
    /\ ScanFinished /\ n >= 2
    /\ \A k \in 1 .. n : head > requests[k]
    /\ MaxOf(requests) > MinOf(requests)

\* C9: for n >= 1 scan reports |head - max| + (max - min); the reversal step
\* costs 0 exactly when some request is >= head and head - max otherwise; the
\* leftward sweep revisits every request, so scan prints
\* (number of requests >= head) + 1 + n moves.
C9_ScanTotal ==
    (ScanFinished /\ n >= 1) =>
        LET top  == MaxOf(requests)
            cnt  == Len(AtOrAbove(requests, head))
            rev  == ScanMoves[cnt + 1]
        IN  /\ ScanReported = (IF head >= top THEN head - top ELSE top - head)
                              + (top - MinOf(requests))
            /\ Len(ScanMoves) = cnt + 1 + n
            /\ (rev.from - rev.to = 0) <=> (cnt > 0)
            /\ cnt = 0 => rev.from - rev.to = head - top
            /\ SubSeq(Dests(ScanMoves), cnt + 2, cnt + 1 + n) = Descending(requests)

C9_Witness ==
    /\ ScanFinished /\ n = 3
    /\ Len(AtOrAbove(requests, head)) = 2
    /\ MinOf(requests) < head
    /\ ScanReported > 0

\* C10: for every n that passes main's check every array access of main, fcfs
\* and scan uses an index within 0..n-1; the reversal step's read of
\* sorted_requests[n - 1] is an in-bounds read of an initialised element.
C10_InBounds ==
    /\ oob = FALSE
    /\ pc = "scan_reverse" => (n - 1 \in 0 .. n - 1 /\ n - 1 < Len(sorted_requests))

(***************************************************************************)
(* Characters, as the codes the comparisons of the sources work on         *)
(***************************************************************************)
ChOpen == 40     \* '('
ChClose == 41    \* ')'
ChStar == 42     \* '*'
ChPlus == 43     \* '+'
ChMinus == 45    \* '-'
ChSlash == 47    \* '/'
Ch0 == 48        \* '0'
Ch9 == 57        \* '9'
ChA == 65        \* 'A'
ChZ == 90        \* 'Z'

Operators == {ChPlus, ChMinus, ChStar, ChSlash}
StringsOver(chars, maxLen) == UNION {[1 .. k -> chars] : k \in 0 .. maxLen}

Top(st) == st[Len(st)]
Pop(st) == SubSeq(st, 1, Len(st) - 1)

(***************************************************************************)
(* src/prefix.cpp : main                                                   *)
(***************************************************************************)
\* the digits 0, 2, 3 and the four operators
PrefixChars == {Ch0, Ch0 + 2, Ch0 + 3} \cup Operators

IsDigit(ch) == ch >= Ch0 /\ ch <= Ch9

\* int division of C++: the quotient is truncated towards zero
CppDiv(a, b) ==
    IF (a < 0) = (b < 0) THEN Abs(a) \div Abs(b) ELSE -(Abs(a) \div Abs(b))

\* lines 22-25: the stack st after the four tests on ch, a popped first
ApplyMinusSwapped(st, ch, a, b) ==
    LET s1 == IF ch = ChPlus THEN Append(st, a + b) ELSE st
        s2 == IF ch = ChMinus THEN Append(s1, b - a) ELSE s1
        s3 == IF ch = ChStar THEN Append(s2, a * b) ELSE s2
    IN  IF ch = ChSlash THEN Append(s3, CppDiv(a, b)) ELSE s3
Apply(st, ch, a, b) ==
    LET s1 == IF ch = ChPlus THEN Append(st, a + b) ELSE st
        s2 == IF ch = ChMinus THEN Append(s1, a - b) ELSE s1
        s3 == IF ch = ChStar THEN Append(s2, a * b) ELSE s2
    IN  IF ch = ChSlash THEN Append(s3, CppDiv(a, b)) ELSE s3

InitPrefix ==
    /\ pc = "prefix_loop"
    /\ exp \in StringsOver(PrefixChars, MaxExpLen)
    /\ i = Len(exp) - 1
    /\ s = <<>> /\ result = <<>> /\ underflow = FALSE
    /\ infix = <<>> /\ postfix = <<>>
    /\ exit_code = -1 /\ fault = FALSE
    /\ DiskIdle

PrefixPushDigit ==
    /\ pc = "prefix_loop"
    /\ i >= 0
    /\ IsDigit(exp[i + 1])
    /\ s' = Append(s, exp[i + 1] - Ch0)
    /\ i' = i - 1
    /\ UNCHANGED <<pc, exp, infix, postfix, underflow, result, exit_code, fault>>
    /\ UNCHANGED <<n, requests, head, j, total_head_movement, current_position,
                   sorted_requests, stdout, oob>>

PrefixApply ==
    /\ pc = "prefix_loop"
    /\ i >= 0
    /\ ~IsDigit(exp[i + 1])
    /\ Len(s) >= 2
    /\ LET a == Top(s)
           b == Top(Pop(s))
       IN  /\ ~(exp[i + 1] = ChSlash /\ b = 0)
           /\ s' = Apply(Pop(Pop(s)), exp[i + 1], a, b)
    /\ i' = i - 1
    /\ UNCHANGED <<pc, exp, infix, postfix, underflow, result, exit_code, fault>>
    /\ UNCHANGED <<n, requests, head, j, total_head_movement, current_position,
                   sorted_requests, stdout, oob>>

\* top() or pop() on an empty stack: behaviour undefined from here on
PrefixUnderflow ==
    /\ pc = "prefix_loop"
    /\ i >= 0
    /\ ~IsDigit(exp[i + 1])
    /\ Len(s) < 2
    /\ underflow' = TRUE
    /\ pc' = "undefined"
    /\ UNCHANGED <<exp, infix, postfix, s, i, result, exit_code, fault>>
    /\ UNCHANGED <<n, requests, head, j, total_head_movement, current_position,
                   sorted_requests, stdout, oob>>

\* a / b with b = 0: the process is killed or continues with undefined state
PrefixDivideByZero ==
    /\ pc = "prefix_loop"
    /\ i >= 0
    /\ exp[i + 1] = ChSlash
    /\ Len(s) >= 2
    /\ Top(Pop(s)) = 0
    /\ \/ fault' = TRUE /\ pc' = "killed"
       \/ fault' = fault /\ pc' = "undefined"
    /\ UNCHANGED <<exp, infix, postfix, s, i, underflow, result, exit_code>>
    /\ UNCHANGED <<n, requests, head, j, total_head_movement, current_position,
                   sorted_requests, stdout, oob>>

PrefixPrint ==
    /\ pc = "prefix_loop"
    /\ ~(i >= 0)
    /\ s # <<>>
    /\ result' = <<Top(s)>>
    /\ exit_code' = 0
    /\ pc' = "exited"
    /\ UNCHANGED <<exp, infix, postfix, s, i, underflow, fault>>
    /\ UNCHANGED <<n, requests, head, j, total_head_movement, current_position,
                   sorted_requests, stdout, oob>>

\* line 29 with nothing on the stack
PrefixPrintUnderflow ==
    /\ pc = "prefix_loop"
    /\ ~(i >= 0)
    /\ s = <<>>
    /\ underflow' = TRUE
    /\ pc' = "undefined"
    /\ UNCHANGED <<exp, infix, postfix, s, i, result, exit_code, fault>>
    /\ UNCHANGED <<n, requests, head, j, total_head_movement, current_position,
                   sorted_requests, stdout, oob>>

NextPrefix ==
    \/ PrefixPushDigit \/ PrefixApply \/ PrefixUnderflow \/ PrefixDivideByZero
    \/ PrefixPrint \/ PrefixPrintUnderflow

SpecPrefix == InitPrefix /\ [][NextPrefix]_vars

(***************************************************************************)
(* Reference: the value of a prefix expression, read from the left         *)
(***************************************************************************)
\* the quotient q of a by b with a = q * b + r, |r| < |b|, r zero or of a's sign
Quotient(a, b) ==
    CHOOSE q \in -Abs(a) .. Abs(a) :
        \E r \in -(Abs(b) - 1) .. (Abs(b) - 1) :
            /\ a = q * b + r
            /\ r = 0 \/ (r > 0) = (a > 0)

Failed == [ok |-> FALSE, val |-> 0, next |-> 0]

RECURSIVE ParsePrefix(_, _)
ParsePrefix(e, k) ==
    IF k > Len(e) THEN Failed
    ELSE IF IsDigit(e[k]) THEN [ok |-> TRUE, val |-> e[k] - Ch0, next |-> k + 1]
    ELSE IF e[k] \notin Operators THEN Failed
    ELSE LET l == ParsePrefix(e, k + 1)
         IN  IF ~l.ok THEN Failed
             ELSE LET r == ParsePrefix(e, l.next)
                  IN  IF ~r.ok THEN Failed
                      ELSE IF e[k] = ChSlash /\ r.val = 0 THEN Failed
                      ELSE [ok |-> TRUE, next |-> r.next,
                            val |-> CASE e[k] = ChPlus -> l.val + r.val
                                      [] e[k] = ChMinus -> l.val - r.val
                                      [] e[k] = ChStar -> l.val * r.val
                                      [] e[k] = ChSlash -> Quotient(l.val, r.val)]

\* a whole expression, no division by zero anywhere in it
WellFormedPrefix(e) ==
    LET p == ParsePrefix(e, 1) IN p.ok /\ p.next = Len(e) + 1
PrefixValue(e) == ParsePrefix(e, 1).val

\* C5: on a well-formed prefix expression over single digits and + - * /
\* without division by zero the evaluator never pops an empty stack and prints
\* the expression's value, the first-popped value being the left operand;
\* "+23" gives 5.
C5_PrefixValue ==
    WellFormedPrefix(exp) =>
        /\ underflow = FALSE /\ fault = FALSE /\ pc # "undefined"
        /\ pc = "exited" => result = <<PrefixValue(exp)>>
        /\ (pc = "exited" /\ exp = <<ChPlus, Ch0 + 2, Ch0 + 3>>) => result = <<5>>

\* "/-232" = (2 - 3) / 2 = 0
C5_Witness ==
    /\ pc = "exited"
    /\ exp = <<ChSlash, ChMinus, Ch0 + 2, Ch0 + 3, Ch0 + 2>>
    /\ result = <<0>>

(***************************************************************************)
(* src/postfix.cpp : main                                                  *)
(***************************************************************************)
\* Inputs: every string of operands, operators and parentheses up to the
\* bound.  The code treats all uppercase letters alike (line 12), so the
\* operands are named A, B, C, ... in order of appearance.
InfixShapes == StringsOver({ChA, ChOpen, ChClose} \cup Operators, MaxInfixLen)
Lettered(t) ==
    [p \in 1 .. Len(t) |->
        IF t[p] = ChA
        THEN ChA + Cardinality({q \in 1 .. p - 1 : t[q] = ChA})
        ELSE t[p]]
InfixInputs == {Lettered(t) : t \in InfixShapes}

IsUpper(ch) == ch >= ChA /\ ch <= ChZ

\* line 31: what a '+' or '-' pops before it is pushed
PoppedByPlusMinusAll(top) == TRUE
PoppedByPlusMinus(top) == top # ChOpen

\* line 39: what a '*' or '/' pops before it is pushed
PoppedByMulDivAll(top) == top # ChOpen
PoppedByMulDiv(top) == top = ChStar \/ top = ChSlash

\* lines 20-24: pop and append down to the '(' and discard it; the loop reads
\* the top of an empty stack when there is no '('
RECURSIVE CloseParenLoop(_, _)
CloseParenLoop(st, out) ==
    IF st = <<>> THEN [ub |-> TRUE, s |-> st, postfix |-> out]
    ELSE IF Top(st) # ChOpen THEN CloseParenLoop(Pop(st), Append(out, Top(st)))
    ELSE [ub |-> FALSE, s |-> Pop(st), postfix |-> out]

\* lines 31-34
RECURSIVE PlusMinusLoop(_, _)
PlusMinusLoop(st, out) ==
    IF st # <<>> /\ PoppedByPlusMinus(Top(st))
    THEN PlusMinusLoop(Pop(st), Append(out, Top(st)))
    ELSE [s |-> st, postfix |-> out]

\* lines 38-42
RECURSIVE MulDivLoop(_, _)
MulDivLoop(st, out) ==
    IF st # <<>> /\ PoppedByMulDiv(Top(st))
    THEN MulDivLoop(Pop(st), Append(out, Top(st)))
    ELSE [s |-> st, postfix |-> out]

\* lines 47-50
RECURSIVE FlushLoop(_, _)
FlushLoop(st, out) ==
    IF st # <<>> THEN FlushLoop(Pop(st), Append(out, Top(st))) ELSE out

InitPostfix ==
    /\ pc = "postfix_loop"
    /\ infix \in InfixInputs
    /\ postfix = <<>>
    /\ s = <<>>
    /\ i = 0
    /\ exp = <<>> /\ result = <<>> /\ underflow = FALSE
    /\ exit_code = -1 /\ fault = FALSE
    /\ DiskIdle

PostfixOperand ==
    /\ pc = "postfix_loop"
    /\ i < Len(infix)
    /\ IsUpper(infix[i + 1])
    /\ postfix' = Append(postfix, infix[i + 1])
    /\ i' = i + 1
    /\ UNCHANGED <<pc, exp, infix, s, underflow, result, exit_code, fault>>
    /\ UNCHANGED <<n, requests, head, j, total_head_movement, current_position,
                   sorted_requests, stdout, oob>>

PostfixOpenParen ==
    /\ pc = "postfix_loop"
    /\ i < Len(infix)
    /\ ~IsUpper(infix[i + 1])
    /\ infix[i + 1] = ChOpen
    /\ s' = Append(s, infix[i + 1])
    /\ i' = i + 1
    /\ UNCHANGED <<pc, exp, infix, postfix, underflow, result, exit_code, fault>>
    /\ UNCHANGED <<n, requests, head, j, total_head_movement, current_position,
                   sorted_requests, stdout, oob>>

PostfixCloseParen ==
    /\ pc = "postfix_loop"
    /\ i < Len(infix)
    /\ ~IsUpper(infix[i + 1])
    /\ infix[i + 1] # ChOpen
    /\ infix[i + 1] = ChClose
    /\ LET r == CloseParenLoop(s, postfix)
       IN  /\ ~r.ub
           /\ s' = r.s
           /\ postfix' = r.postfix
    /\ i' = i + 1
    /\ UNCHANGED <<pc, exp, infix, underflow, result, exit_code, fault>>
    /\ UNCHANGED <<n, requests, head, j, total_head_movement, current_position,
                   sorted_requests, stdout, oob>>

\* s.top() on the empty stack in the loop of line 20: behaviour undefined from
\* here on
PostfixCloseParenUnderflow ==
    /\ pc = "postfix_loop"
    /\ i < Len(infix)
    /\ ~IsUpper(infix[i + 1])
    /\ infix[i + 1] # ChOpen
    /\ infix[i + 1] = ChClose
    /\ LET r == CloseParenLoop(s, postfix)
       IN  /\ r.ub
           /\ s' = r.s
           /\ postfix' = r.postfix
    /\ underflow' = TRUE
    /\ pc' = "undefined"
    /\ UNCHANGED <<exp, infix, i, result, exit_code, fault>>
    /\ UNCHANGED <<n, requests, head, j, total_head_movement, current_position,
                   sorted_requests, stdout, oob>>

\* lines 26-45
PostfixOperator ==
    /\ pc = "postfix_loop"
    /\ i < Len(infix)
    /\ ~IsUpper(infix[i + 1])
    /\ infix[i + 1] # ChOpen
    /\ infix[i + 1] # ChClose
    /\ LET ch == infix[i + 1]
       IN  IF s = <<>>
           THEN s' = Append(s, ch) /\ postfix' = postfix
           ELSE IF ch = ChPlus \/ ch = ChMinus
           THEN LET r == PlusMinusLoop(s, postfix)
                IN  s' = Append(r.s, ch) /\ postfix' = r.postfix
           ELSE IF ch = ChStar \/ ch = ChSlash
           THEN LET r == MulDivLoop(s, postfix)
                IN  s' = Append(r.s, ch) /\ postfix' = r.postfix
           ELSE s' = s /\ postfix' = postfix
    /\ i' = i + 1
    /\ UNCHANGED <<pc, exp, infix, underflow, result, exit_code, fault>>
    /\ UNCHANGED <<n, requests, head, j, total_head_movement, current_position,
                   sorted_requests, stdout, oob>>

\* lines 47-53: flush the stack, print, return 0
PostfixFlush ==
    /\ pc = "postfix_loop"
    /\ ~(i < Len(infix))
    /\ postfix' = FlushLoop(s, postfix)
    /\ s' = <<>>
    /\ exit_code' = 0
    /\ pc' = "exited"
    /\ UNCHANGED <<exp, infix, i, underflow, result, fault>>
    /\ UNCHANGED <<n, requests, head, j, total_head_movement, current_position,
                   sorted_requests, stdout, oob>>

NextPostfix ==
    \/ PostfixOperand \/ PostfixOpenParen \/ PostfixCloseParen
    \/ PostfixCloseParenUnderflow \/ PostfixOperator \/ PostfixFlush

SpecPostfix == InitPostfix /\ [][NextPostfix]_vars

(***************************************************************************)
(* Reference: textbook postfix of a well-formed infix expression, by       *)
(* recursive descent over the grammar                                      *)
(*     E ::= T { addop T }    T ::= F { mulop F }    F ::= letter | "(" E ")" *)
(* with addop one of + -, mulop one of * /, so that mulops bind tighter    *)
(* and all operators are left-associative.                                 *)
(***************************************************************************)
NoParse == [ok |-> FALSE, out |-> <<>>, next |-> 0]

RECURSIVE ParseE(_, _), ParseERest(_, _, _), ParseT(_, _), ParseTRest(_, _, _),
          ParseF(_, _)
ParseF(e, k) ==
    IF k > Len(e) THEN NoParse
    ELSE IF IsUpper(e[k]) THEN [ok |-> TRUE, out |-> <<e[k]>>, next |-> k + 1]
    ELSE IF e[k] = ChOpen
    THEN LET inner == ParseE(e, k + 1)
         IN  IF inner.ok /\ inner.next <= Len(e) /\ e[inner.next] = ChClose
             THEN [ok |-> TRUE, out |-> inner.out, next |-> inner.next + 1]
             ELSE NoParse
    ELSE NoParse
ParseTRest(e, k, out) ==
    IF k <= Len(e) /\ e[k] \in {ChStar, ChSlash}
    THEN LET f == ParseF(e, k + 1)
         IN  IF f.ok THEN ParseTRest(e, f.next, out \o f.out \o <<e[k]>>)
             ELSE NoParse
    ELSE [ok |-> TRUE, out |-> out, next |-> k]
ParseT(e, k) ==
    LET f == ParseF(e, k) IN IF f.ok THEN ParseTRest(e, f.next, f.out) ELSE NoParse
ParseERest(e, k, out) ==
    IF k <= Len(e) /\ e[k] \in {ChPlus, ChMinus}
    THEN LET tm == ParseT(e, k + 1)
         IN  IF tm.ok THEN ParseERest(e, tm.next, out \o tm.out \o <<e[k]>>)
             ELSE NoParse
    ELSE [ok |-> TRUE, out |-> out, next |-> k]
ParseE(e, k) ==
    LET tm == ParseT(e, k) IN IF tm.ok THEN ParseERest(e, tm.next, tm.out) ELSE NoParse

WellFormedInfix(e) == LET r == ParseE(e, 1) IN r.ok /\ r.next = Len(e) + 1
TextbookPostfix(e) == ParseE(e, 1).out

MixesPrecedence(e) ==
    /\ \E k \in 1 .. Len(e) : e[k] \in {ChPlus, ChMinus}
    /\ \E k \in 1 .. Len(e) : e[k] \in {ChStar, ChSlash}

APlusBTimesC == <<ChA, ChPlus, ChA + 1, ChStar, ChA + 2>>

\* C6 as stated: the converter's precedence handling is incomplete; on
\* well-formed inputs that mix + or - with * or /, such as "A+B*C", its output
\* differs from the textbook postfix string.
C6_Original ==
    (pc = "exited" /\ infix = APlusBTimesC) => postfix # TextbookPostfix(infix)

\* C6 amended: on every well-formed infix expression over uppercase operands,
\* also those that mix + or - with * or /, the converter's output is the
\* textbook postfix string; "A+B*C" gives "ABC*+".
C6_MatchesTextbook ==
    (pc = "exited" /\ WellFormedInfix(infix)) =>
        /\ postfix = TextbookPostfix(infix)
        /\ infix = APlusBTimesC => postfix = <<ChA, ChA + 1, ChA + 2, ChStar, ChPlus>>

C6_Witness ==
    /\ pc = "exited"
    /\ WellFormedInfix(infix) /\ MixesPrecedence(infix)
    /\ infix = APlusBTimesC
    /\ postfix = <<ChA, ChA + 1, ChA + 2, ChStar, ChPlus>>

\* parentheses properly nested: the depth never drops below 0 and ends at 0
RECURSIVE Depth(_, _)
Depth(e, k) ==
    IF k = 0 THEN 0
    ELSE Depth(e, k - 1) + (IF e[k] = ChOpen THEN 1 ELSE IF e[k] = ChClose THEN -1 ELSE 0)
Balanced(e) ==
    /\ \A k \in 1 .. Len(e) : Depth(e, k) >= 0
    /\ Depth(e, Len(e)) = 0

Count(seq, ch) == Len(SelectSeq(seq, LAMBDA x : x = ch))

\* C8: on every input over uppercase letters, + - * / and balanced
\* parentheses the converter never reads the top of an empty stack while
\* handling ')'; the output has no parenthesis, has the operands in input
\* order and every operator occurrence exactly once (its length is the
\* input's less the parentheses), and the stack is empty when it is printed.
C8_OutputShape ==
    Balanced(infix) =>
        /\ underflow = FALSE /\ pc # "undefined"
        /\ pc = "exited" =>
               /\ Count(postfix, ChOpen) = 0 /\ Count(postfix, ChClose) = 0
               /\ SelectSeq(postfix, IsUpper) = SelectSeq(infix, IsUpper)
               /\ \A op \in Operators : Count(postfix, op) = Count(infix, op)
               /\ Len(postfix) =
                      Len(infix) - Count(infix, ChOpen) - Count(infix, ChClose)
               /\ s = <<>>

\* "(A+B)": the operator is popped by the ')' and the '(' is discarded
C8_Witness ==
    /\ pc = "exited"
    /\ infix = <<ChOpen, ChA, ChPlus, ChA + 1, ChClose>>
    /\ postfix = <<ChA, ChA + 1, ChPlus>>

====
